---- MODULE Spec2Model ----
(***************************************************************************)
(* Camera session and control layer of CESIS multiview (src/server.js).    *)
(*                                                                         *)
(* Part 1 (lines 1-198): the stream session manager.  An Express server    *)
(* keeps a Map `activeStreams` from cameraId to the ffmpeg child process   *)
(* it spawned; the start / stop / status handlers and the SIGINT handler   *)
(* are synchronous callbacks run to completion on the event loop, and the  *)
(* 'error' / 'close' observers of each child run as later callbacks.       *)
(*                                                                         *)
(* Part 2 (lines 200-385): the digest client fetchWithDigest.              *)
(***************************************************************************)
EXTENDS Integers, Sequences, FiniteSets, TLC

\* ------------------------------------------------------------------------
\* Bounds of the model
\* ------------------------------------------------------------------------

\* Number of child processes the server may spawn in one behaviour.
MaxProcs == 2

\* Number of requests that can be waiting for their handlers at the same time.
MaxPending == 2

\* The fetchWithDigest calls that may be in flight together.
MaxCalls == 2

\* ------------------------------------------------------------------------
\* Values
\* ------------------------------------------------------------------------

\* JavaScript null in a JSON body, and the value of a field a body does not have.
JsNull == "null"

\* Map.prototype.get of an absent key.
Undefined == 0

\* The ids of streamsConfig.streams (public/streams.json, read once at load).
streamsConfig == {"cam1", "cam2"}

\* The :cameraId route parameters the clients send: the configured ids and one
\* that the configuration does not know.
CameraIds == streamsConfig \cup {"nocam"}

VARIABLES
    activeStreams,  \* the Map cameraId -> child process (a pid of procs)
    procs,          \* every child the server spawned, in spawn order
    pending,        \* per camera, the simultaneous start requests still waiting
    raced,          \* per camera, whether requests among them were already waiting
                    \* when the latest start of that camera spawned its child
    last,           \* the callback the event loop ran last, and its response
    up,             \* FALSE once process.exit(0) has run
    calls,          \* per caller of fetchWithDigest, the call that is in flight
    ret             \* how the fetchWithDigest call that ended last ended

streamVars == <<activeStreams, procs, pending, raced, last, up>>

digestVars == <<calls, ret>>

vars == <<activeStreams, procs, pending, raced, last, up, calls, ret>>

\* ------------------------------------------------------------------------
\* The Map activeStreams
\* ------------------------------------------------------------------------

\* Mutation: the membership test looks up something that is never a key.
MapHasNever(m, k) == FALSE

MapHas(m, k) == k \in DOMAIN m

MapGet(m, k) == IF k \in DOMAIN m THEN m[k] ELSE Undefined

\* Mutation: the insert is lost (left to a later callback).
MapSetLost(m, k, v) == m

MapSet(m, k, v) == [x \in DOMAIN m \cup {k} |-> IF x = k THEN v ELSE m[x]]

\* Mutation: the delete is lost.
MapDeleteLost(m, k) == m

\* Mutation: the delete empties the Map.
MapDeleteClears(m, k) == <<>>

MapDelete(m, k) == [x \in DOMAIN m \ {k} |-> m[x]]

\* ------------------------------------------------------------------------
\* Helpers of the handlers
\* ------------------------------------------------------------------------

\* Mutation: every id is taken for a configured camera.
FindStreamAny(cameraId) == TRUE

\* Mutation: the observers leave the registry alone.
CleanupSkipped(m, cameraId) == m

\* streamsConfig.streams.find(s => s.id === cameraId), as "a stream was found".
FindStream(cameraId) == cameraId \in streamsConfig

\* The observers' activeStreams.delete(cameraId).
Cleanup(m, cameraId) == MapDelete(m, cameraId)

\* `/hls/${cameraId}/stream.m3u8`
HlsUrl(cameraId) == "/hls/" \o cameraId \o "/stream.m3u8"

\* res.status(code).json(body): every body is given all fields, JsNull when absent.
Response(code, status, hlsUrl, active, error) ==
    [code |-> code, status |-> status, hlsUrl |-> hlsUrl, active |-> active,
     error |-> error]

NoResponse == Response(0, JsNull, JsNull, JsNull, JsNull)

\* spawn('ffmpeg', [...]): the ChildProcess object.  `launched` is whether the
\* operating system created the process; when it did not, Node reports the
\* failure later through the 'error' event.  `url` is the hlsUrl returned by
\* the start that spawned the child (history).
NewChild(cameraId, launched) ==
    [cam       |-> cameraId,
     st        |-> IF launched THEN "alive" ELSE "failed",
     errFired  |-> FALSE,
     closeFired |-> FALSE,
     url       |-> HlsUrl(cameraId)]

\* Mutation: the signal is not sent.
KillNothing(ps, p) == ps

\* ffmpeg.kill('SIGTERM') on child p: a running child receives the signal; for
\* a child that has ended or was never launched the call delivers nothing.
Kill(ps, p) == [ps EXCEPT ![p].st = IF @ = "alive" THEN "signalled" ELSE @]

\* Child p is an operating system process that has not ended.
Running(ps, p) == ps[p].st \in {"alive", "signalled"}

\* The process of child p has ended: by itself ("crashed", whatever its exit
\* code) or after it was sent SIGTERM ("terminated").
Ended(ps, p) == ps[p].st \in {"crashed", "terminated"}

Pids == 1..Len(procs)

\* A callback the event loop ran: its response, and the children it called
\* kill('SIGTERM') on, one element per call.  `raced` is set for a start handler whose request may
\* have been waiting when the latest start of the same camera spawned its
\* child (history).
Event(kind, id, resp, killed) ==
    [kind |-> kind, id |-> id, resp |-> resp, killed |-> killed, raced |-> FALSE]

StartEvent(id, resp, wasRaced) ==
    [kind |-> "start", id |-> id, resp |-> resp, killed |-> <<>>, raced |-> wasRaced]

\* The number of start requests waiting for the event loop.
Waiting(q) == q["cam1"] + q["cam2"]

\* The event loop takes a waiting start request for its handler.
Take(q, id) == [q EXCEPT ![id] = @ - 1]

\* ------------------------------------------------------------------------
\* GET /api/stream/start/:cameraId
\* ------------------------------------------------------------------------

\* The handler, run to completion by the event loop (it contains no await).
StartRoute(cameraId, wasRaced) ==
    /\ up
    /\ IF ~FindStream(cameraId) THEN
           /\ last' = StartEvent(cameraId,
                            Response(404, JsNull, JsNull, JsNull, "Camera not found"),
                            wasRaced)
           /\ UNCHANGED <<activeStreams, procs>>
       ELSE IF MapHas(activeStreams, cameraId) THEN
           /\ last' = StartEvent(cameraId,
                            Response(200, "already_running", HlsUrl(cameraId),
                                     JsNull, JsNull),
                            wasRaced)
           /\ UNCHANGED <<activeStreams, procs>>
       ELSE
           /\ Len(procs) < MaxProcs
           /\ \E launched \in BOOLEAN :
                 procs' = Append(procs, NewChild(cameraId, launched))
           /\ activeStreams' = MapSet(activeStreams, cameraId, Len(procs) + 1)
           /\ last' = StartEvent(cameraId,
                            Response(200, "started", HlsUrl(cameraId), JsNull, JsNull),
                            wasRaced)

\* A start request handled as it comes in.
StartHandler(cameraId) ==
    /\ StartRoute(cameraId, FALSE)
    /\ raced' = [id \in streamsConfig |->
                    IF id = cameraId /\ Len(procs') > Len(procs)
                    THEN pending[id] > 0 ELSE raced[id]]
    /\ UNCHANGED <<pending, up>>
    /\ UNCHANGED digestVars

\* Simultaneous start requests for a camera.  A start request reaches the
\* server and waits for the event loop to run its handler; the requests that
\* wait together are the simultaneous ones.  The event loop runs their
\* handlers one at a time and may run any other callback in between.  The
\* waiting requests of one configured camera at a time are followed; every
\* other request is taken at the moment its handler runs.
Arrive(id) ==
    /\ up
    /\ Waiting(pending) < MaxPending
    /\ \A other \in streamsConfig \ {id} : pending[other] = 0
    /\ pending' = [pending EXCEPT ![id] = @ + 1]
    /\ UNCHANGED <<activeStreams, procs, raced, last, up>>
    /\ UNCHANGED digestVars

\* The event loop runs the handler of a waiting start request.
DispatchStart(cameraId) ==
    /\ pending[cameraId] > 0
    /\ pending' = Take(pending, cameraId)
    /\ StartRoute(cameraId, raced[cameraId])
    /\ raced' = [raced EXCEPT ![cameraId] =
                    IF Len(procs') > Len(procs) THEN pending'[cameraId] > 0
                    ELSE @ /\ pending'[cameraId] > 0]
    /\ up' = up
    /\ UNCHANGED digestVars

\* ------------------------------------------------------------------------
\* GET /api/stream/stop/:cameraId
\* ------------------------------------------------------------------------

StopHandler(cameraId) ==
    /\ up
    /\ UNCHANGED <<pending, raced, up>>
    /\ LET ffmpeg == MapGet(activeStreams, cameraId) IN
       IF ffmpeg = Undefined THEN
           /\ last' = Event("stop", cameraId,
                            Response(404, JsNull, JsNull, JsNull, "Stream not active"),
                            <<>>)
           /\ UNCHANGED <<activeStreams, procs>>
       ELSE
           /\ procs' = Kill(procs, ffmpeg)
           /\ activeStreams' = MapDelete(activeStreams, cameraId)
           /\ last' = Event("stop", cameraId,
                            Response(200, "stopped", JsNull, JsNull, JsNull),
                            <<ffmpeg>>)
    /\ UNCHANGED digestVars

\* ------------------------------------------------------------------------
\* GET /api/stream/status/:cameraId
\* ------------------------------------------------------------------------

\* Mutation: the playback URL is returned whether or not a session exists.
StatusBodyUrlAlways(m, cameraId) ==
    Response(200, JsNull, "/hls/" \o cameraId \o "/stream.m3u8", cameraId \in DOMAIN m, JsNull)

StatusBody(m, cameraId) ==
    LET isActive == MapHas(m, cameraId) IN
    Response(200, JsNull, IF isActive THEN HlsUrl(cameraId) ELSE JsNull, isActive, JsNull)

StatusHandler(cameraId) ==
    /\ up
    /\ last' = Event("status", cameraId, StatusBody(activeStreams, cameraId), <<>>)
    /\ UNCHANGED <<activeStreams, procs, pending, raced, up>>
    /\ UNCHANGED digestVars

\* ------------------------------------------------------------------------
\* The child processes and their observers
\* ------------------------------------------------------------------------

\* The operating system process of child p ends (by itself or after a signal).
ProcExit(p) ==
    /\ Running(procs, p)
    /\ procs' = [procs EXCEPT ![p].st = IF @ = "alive" THEN "crashed" ELSE "terminated"]
    /\ UNCHANGED <<activeStreams, pending, raced, last, up>>
    /\ UNCHANGED digestVars

\* ffmpeg.on('error', ...): the launch of child p failed.
OnError(p) ==
    /\ up
    /\ procs[p].st = "failed" /\ ~procs[p].errFired
    /\ procs' = [procs EXCEPT ![p].errFired = TRUE]
    /\ activeStreams' = Cleanup(activeStreams, procs[p].cam)
    /\ last' = Event("error", procs[p].cam, NoResponse, <<>>)
    /\ UNCHANGED <<pending, raced, up>>
    /\ UNCHANGED digestVars

\* Mutation: the termination observer starts the stream again.
OnCloseRespawns(p) ==
    /\ up
    /\ ~procs[p].closeFired
    /\ \/ Ended(procs, p)
       \/ procs[p].st = "failed" /\ procs[p].errFired
    /\ Len(procs) < MaxProcs
    /\ procs' = Append([procs EXCEPT ![p].closeFired = TRUE],
                       NewChild(procs[p].cam, TRUE))
    /\ activeStreams' = MapSet(activeStreams, procs[p].cam, Len(procs) + 1)
    /\ last' = Event("close", procs[p].cam, NoResponse, <<>>)
    /\ UNCHANGED <<pending, raced, up>>
    /\ UNCHANGED digestVars

\* ffmpeg.on('close', ...): child p ended and its stdio streams were closed.
\* After a launch failure Node may or may not emit it, and only after 'error'.
OnClose(p) ==
    /\ up
    /\ ~procs[p].closeFired
    /\ \/ Ended(procs, p)
       \/ procs[p].st = "failed" /\ procs[p].errFired
    /\ procs' = [procs EXCEPT ![p].closeFired = TRUE]
    /\ activeStreams' = Cleanup(activeStreams, procs[p].cam)
    /\ last' = Event("close", procs[p].cam, NoResponse, <<>>)
    /\ UNCHANGED <<pending, raced, up>>
    /\ UNCHANGED digestVars

\* ------------------------------------------------------------------------
\* process.on('SIGINT', ...)
\* ------------------------------------------------------------------------

\* The for..of loop over activeStreams.entries(): the children it visits, one
\* per entry in some order.
RECURSIVE EntriesOf(_, _)
EntriesOf(m, keys) ==
    IF keys = {} THEN <<>>
    ELSE LET k == CHOOSE x \in keys : TRUE IN <<m[k]>> \o EntriesOf(m, keys \ {k})

\* Mutation: the loop visits nothing.
ShutdownTargetsNone(m) == <<>>

ShutdownTargets(m) == EntriesOf(m, DOMAIN m)

\* ffmpeg.kill('SIGTERM') for each child of a list, in order.
RECURSIVE KillAll(_, _)
KillAll(ps, targets) ==
    IF targets = <<>> THEN ps
    ELSE KillAll(Kill(ps, Head(targets)), Tail(targets))

Sigint ==
    /\ up
    /\ procs' = KillAll(procs, ShutdownTargets(activeStreams))
    /\ up' = FALSE
    /\ last' = Event("sigint", JsNull, NoResponse, ShutdownTargets(activeStreams))
    /\ UNCHANGED <<activeStreams, pending, raced>>
    /\ UNCHANGED digestVars

\* ------------------------------------------------------------------------
\* Next-state relations of the stream manager
\* ------------------------------------------------------------------------

Next ==
    \/ \E id \in CameraIds : StartHandler(id)
    \/ \E id \in CameraIds : StopHandler(id)
    \/ \E id \in CameraIds : StatusHandler(id)
    \/ \E p \in Pids : ProcExit(p)
    \/ \E p \in Pids : OnError(p)
    \/ \E p \in Pids : OnClose(p)
    \/ Sigint

\* The same server when start requests can wait together for their handlers.
NextRace ==
    \/ \E id \in streamsConfig : Arrive(id)
    \/ \E id \in streamsConfig : DispatchStart(id)
    \/ \E id \in CameraIds : StartHandler(id)
    \/ \E id \in CameraIds : StopHandler(id)
    \/ \E id \in CameraIds : StatusHandler(id)
    \/ \E p \in Pids : ProcExit(p)
    \/ \E p \in Pids : OnError(p)
    \/ \E p \in Pids : OnClose(p)
    \/ Sigint

\* ------------------------------------------------------------------------
\* Properties
\* ------------------------------------------------------------------------

\* The start handler answered 'already_running' and changed nothing.
ShortCircuits(cameraId) ==
    /\ last'.kind = "start" /\ last'.id = cameraId
    /\ last'.resp.code = 200
    /\ last'.resp.status = "already_running"
    /\ procs' = procs
    /\ activeStreams' = activeStreams

\* The start handler answered 'started', spawned one child and registered it.
SpawnsOne(cameraId) ==
    /\ last'.kind = "start" /\ last'.id = cameraId
    /\ last'.resp.code = 200
    /\ last'.resp.status = "started"
    /\ Len(procs') = Len(procs) + 1
    /\ cameraId \in DOMAIN activeStreams'
    /\ activeStreams'[cameraId] = Len(procs')
    /\ procs'[Len(procs')].cam = cameraId

\* C1: start(id) for a configured id that already has a registry entry answers
\* 'already_running' with the hlsUrl the session-creating start returned,
\* spawns nothing and leaves the registry unchanged; and a start(id) handled
\* right after a successful start(id), with no other callback in between,
\* answers 'already_running' and spawns nothing.
C1_IdempotentStart ==
    [][\A id \in streamsConfig :
          /\ (StartHandler(id) /\ id \in DOMAIN activeStreams)
                => /\ ShortCircuits(id)
                   /\ last'.resp.hlsUrl = procs[activeStreams[id]].url
          /\ (StartHandler(id) /\ last.kind = "start" /\ last.id = id
                               /\ last.resp.code = 200)
                => ShortCircuits(id)
      ]_vars

\* C1 witness: a start was answered 'already_running' right after the start
\* that created the session.
C1_Witness ==
    /\ last.kind = "start" /\ last.resp.status = "already_running"
    /\ Len(procs) = 1 /\ procs[1].cam = last.id
    /\ activeStreams = (last.id :> 1)

\* C2 as stated: of two start(id) requests that waited together while id was
\* unregistered, the one handled second always short-circuits (here with one
\* child spawned so far and no stop call on it).
C2_Original ==
    [][\A id \in streamsConfig :
          (DispatchStart(id) /\ raced[id] /\ Len(procs) = 1
                            /\ procs[1].cam = id /\ procs[1].st # "signalled")
             => ShortCircuits(id)
      ]_vars

\* C2 amended: a start handler checks the registry, spawns and registers in one
\* step; and of two start(id) requests that waited together, the one handled
\* second short-circuits when it runs right after the first or, more
\* generally, while the entry the first one inserted is still registered.
C2_RaceOneSpawn ==
    [][\A id \in streamsConfig :
          DispatchStart(id) =>
             /\ id \notin DOMAIN activeStreams => SpawnsOne(id)
             /\ (raced[id] /\ last.kind = "start" /\ last.id = id
                           /\ last.resp.status = "started")
                   => ShortCircuits(id)
             /\ (raced[id] /\ id \in DOMAIN activeStreams) => ShortCircuits(id)
      ]_vars

\* C2 witness: the second of two simultaneous starts has just short-circuited.
C2_Witness ==
    /\ last.kind = "start" /\ last.resp.status = "already_running"
    /\ last.raced
    /\ Len(procs) = 1 /\ procs[1].cam = last.id
    /\ activeStreams = (last.id :> 1)

\* status(id) as a caller would see it in the current state.
Active(cameraId) == StatusBody(activeStreams, cameraId).active

\* The previous callback was a start(id) that succeeded.
AfterStart(cameraId) ==
    last.kind = "start" /\ last.id = cameraId /\ last.resp.code = 200

\* The previous callback was a stop(id) that answered 'stopped'.
AfterStop(cameraId) ==
    last.kind = "stop" /\ last.id = cameraId /\ last.resp.status = "stopped"

\* The callback that just ran answered 404 with the given error.
Fails(kind, cameraId, error) ==
    /\ last'.kind = kind /\ last'.id = cameraId
    /\ last'.resp.code = 404
    /\ last'.resp.error = error

\* C3: right after a successful start(id), status(id) reports active: true;
\* right after a stop(id) that answered 'stopped', status(id) reports active:
\* false and another stop(id) fails with NotActive; and status(id).active
\* always equals "the registry holds an entry for id".
C3_StartStopStatus ==
    [][\A id \in CameraIds :
          /\ (StatusHandler(id) /\ AfterStart(id)) => last'.resp.active = TRUE
          /\ (StatusHandler(id) /\ AfterStop(id)) => last'.resp.active = FALSE
          /\ (StopHandler(id) /\ AfterStop(id)) => Fails("stop", id, "Stream not active")
          /\ StatusHandler(id) => last'.resp.active = (id \in DOMAIN activeStreams)
          /\ AfterStart(id)' => id \in DOMAIN activeStreams'
          /\ AfterStop(id)' => id \notin DOMAIN activeStreams'
      ]_vars

\* C3 witness: a second stop(id) has failed with NotActive while the child the
\* first stop signalled is still running.
C3_Witness ==
    /\ last.kind = "stop" /\ last.resp.code = 404
    /\ \E p \in Pids : procs[p].cam = last.id /\ procs[p].st = "signalled"

\* C4: stop(id) without a session fails with NotActive, signals nothing and
\* leaves the registry unchanged; stop(id) with a session calls kill once, on
\* that session's child and no other, and removes the entry in the same step,
\* when no observer of the child has confirmed its exit.
C4_Stop ==
    [][\A id \in CameraIds :
          StopHandler(id) =>
             IF id \notin DOMAIN activeStreams
             THEN /\ Fails("stop", id, "Stream not active")
                  /\ last'.killed = <<>>
                  /\ procs' = procs
                  /\ activeStreams' = activeStreams
             ELSE LET p == activeStreams[id] IN
                  /\ last'.resp.code = 200 /\ last'.resp.status = "stopped"
                  /\ last'.killed = <<p>>
                  /\ procs[p].cam = id
                  /\ procs[p].st = "alive" => procs'[p].st = "signalled"
                  /\ \A q \in Pids \ {p} : procs'[q] = procs[q]
                  /\ Len(procs') = Len(procs)
                  /\ DOMAIN activeStreams' = DOMAIN activeStreams \ {id}
                  /\ \A k \in DOMAIN activeStreams' : activeStreams'[k] = activeStreams[k]
                  /\ ~procs'[p].closeFired /\ ~procs'[p].errFired
      ]_vars

\* C4 witness: stop(id) answered 'stopped'; the child it signalled is still
\* running and the entry is gone while another camera keeps its session.
C4_Witness ==
    /\ last.kind = "stop" /\ last.resp.status = "stopped"
    /\ Len(last.killed) = 1
    /\ procs[last.killed[1]].st = "signalled"
    /\ last.id \notin DOMAIN activeStreams
    /\ activeStreams # <<>>

\* C5: once the launch-failure or termination observer of a child has run, the
\* registry holds no entry for its camera and status reports active: false,
\* with no stop call needed; no registered child has had an observer run; and
\* a start(id) handled next answers 'started' and spawns a new child.
C5_CrashReconciliation ==
    [][/\ \A p \in Pids :
            (OnError(p) \/ OnClose(p)) =>
               /\ procs[p].cam \notin DOMAIN activeStreams'
               /\ Active(procs[p].cam)' = FALSE
       /\ \A id \in DOMAIN activeStreams' :
            LET q == activeStreams'[id] IN
            ~procs'[q].errFired /\ ~procs'[q].closeFired
       /\ \A id \in streamsConfig :
            (StartHandler(id) /\ last.kind \in {"error", "close"} /\ last.id = id)
               => SpawnsOne(id)
       /\ \A id \in streamsConfig :
            (StatusHandler(id) /\ last.kind \in {"error", "close"} /\ last.id = id)
               => last'.resp.active = FALSE
      ]_vars

\* C5 witness: the first child crashed, its termination observer ran, and a
\* start of the same camera has just spawned a second child.
C5_Witness ==
    /\ last.kind = "start" /\ last.resp.status = "started"
    /\ Len(procs) = 2
    /\ procs[1].cam = last.id /\ procs[1].st = "crashed" /\ procs[1].closeFired
    /\ activeStreams = (last.id :> 2)

\* C6: start(id) for an id the configuration does not hold fails with
\* NotFound, spawns nothing and leaves the registry unchanged, whatever
\* sessions exist.
C6_UnknownCamera ==
    [][\A id \in CameraIds \ streamsConfig :
          StartHandler(id) =>
             /\ Fails("start", id, "Camera not found")
             /\ procs' = procs
             /\ activeStreams' = activeStreams
      ]_vars

\* C6 witness: a start of an unknown id was refused while both configured
\* cameras had sessions.
C6_Witness ==
    /\ last.kind = "start" /\ last.resp.code = 404
    /\ DOMAIN activeStreams = streamsConfig

\* C7: status(id) answers 200 for every id, leaves the registry and the
\* children unchanged, signals nothing, and returns a non-null hlsUrl exactly
\* when active is true.
C7_StatusPure ==
    [][\A id \in CameraIds :
          StatusHandler(id) =>
             /\ last'.kind = "status" /\ last'.id = id
             /\ last'.resp.code = 200
             /\ last'.resp.active \in BOOLEAN
             /\ (last'.resp.hlsUrl # JsNull) <=> (last'.resp.active = TRUE)
             /\ last'.resp.active => last'.resp.hlsUrl = procs[activeStreams[id]].url
             /\ last'.killed = <<>>
             /\ activeStreams' = activeStreams
             /\ procs' = procs
             /\ up' = up
      ]_vars

\* C7 witness: status of a camera without a session answered active: false
\* and a null hlsUrl while the other camera had a session.
C7_Witness ==
    /\ last.kind = "status" /\ last.id \in streamsConfig
    /\ last.resp.active = FALSE /\ last.resp.hlsUrl = JsNull
    /\ activeStreams # <<>>

\* C8: when the termination observer of a child that stop signalled runs and
\* the registry holds no entry for the child's camera, the registry is left
\* as it is and the observer completes.
C8_ObserverNoOp ==
    [][\A p \in Pids :
          (OnClose(p) /\ procs[p].st = "terminated"
                      /\ procs[p].cam \notin DOMAIN activeStreams)
             => /\ activeStreams' = activeStreams
                /\ procs' = [procs EXCEPT ![p].closeFired = TRUE]
                /\ last'.kind = "close"
      ]_vars

\* C8 witness: the termination observer of a stopped child has run while the
\* other camera keeps its session.
C8_Witness ==
    /\ last.kind = "close"
    /\ \E p \in Pids : /\ procs[p].cam = last.id
                        /\ procs[p].st = "terminated" /\ procs[p].closeFired
    /\ last.id \notin DOMAIN activeStreams
    /\ activeStreams # <<>>

\* The number of kill calls a callback made on child p.
RECURSIVE Count(_, _)
Count(seq, p) ==
    IF seq = <<>> THEN 0
    ELSE (IF Head(seq) = p THEN 1 ELSE 0) + Count(Tail(seq), p)

\* Child p is the child of a session of the registry.
Registered(p) == \E k \in DOMAIN activeStreams : activeStreams[k] = p

\* C9: the SIGINT handler calls kill exactly once on the child of every
\* session in the registry and on no other child, and completes when the
\* registry is empty.
C9_ShutdownAll ==
    [][Sigint =>
          /\ last'.kind = "sigint"
          /\ \A p \in Pids : Count(last'.killed, p) = IF Registered(p) THEN 1 ELSE 0
          /\ Len(last'.killed) = Cardinality(DOMAIN activeStreams)
          /\ \A p \in Pids :
                procs'[p].st = IF Registered(p) /\ procs[p].st = "alive"
                               THEN "signalled" ELSE procs[p].st
          /\ activeStreams = <<>> => (procs' = procs /\ last'.killed = <<>>)
          /\ ~up'
      ]_vars

\* C9 witness: the server has shut down with two sessions, both signalled.
C9_Witness ==
    /\ ~up /\ last.kind = "sigint"
    /\ Len(last.killed) = 2
    /\ \A p \in Pids : procs[p].st = "signalled"

\* ========================================================================
\* Part 2: the digest client (src/server.js lines 200-385)
\* ========================================================================

\* ------------------------------------------------------------------------
\* Texts
\* ------------------------------------------------------------------------

\* A complete Digest challenge with quoted values.
ChallengeFull ==
    <<"D", "i", "g", "e", "s", "t", " ", "r", "e", "a", "l", "m", "=", "\"",
      "R", "\"", ",", " ", "n", "o", "n", "c", "e", "=", "\"", "N", "\"",
      ",", " ", "q", "o", "p", "=", "\"", "a", "u", "t", "h", "\"">>

\* A Digest challenge with unquoted values that names another hash algorithm.
ChallengeUnquoted ==
    <<"D", "i", "g", "e", "s", "t", " ", "r", "e", "a", "l", "m", "=", "\"",
      "R", "\"", ",", " ", "n", "o", "n", "c", "e", "=", "N", "2", ",", " ",
      "a", "l", "g", "o", "r", "i", "t", "h", "m", "=", "S", "H", "A", "-",
      "2", "5", "6", ",", " ", "q", "o", "p", "=", "a", "u", "t", "h">>

\* A Digest challenge without nonce.
ChallengeNoNonce ==
    <<"D", "i", "g", "e", "s", "t", " ", "r", "e", "a", "l", "m", "=", "\"",
      "R", "\"", ",", " ", "q", "o", "p", "=", "\"", "a", "u", "t", "h",
      "\"">>

\* A challenge of another scheme.
ChallengeBasic ==
    <<"B", "a", "s", "i", "c", " ", "r", "e", "a", "l", "m", "=", "\"", "R",
      "\"">>

DigestPrefix ==
    <<"D", "i", "g", "e", "s", "t", " ">>

\* String(undefined), as a template literal renders a missing value.
UndefinedText ==
    <<"u", "n", "d", "e", "f", "i", "n", "e", "d">>

NcText ==
    <<"0", "0", "0", "0", "0", "0", "0", "1">>

MethodGet ==
    <<"G", "E", "T">>

MethodPost ==
    <<"P", "O", "S", "T">>

PtzPath ==
    <<"/", "a", "x", "i", "s", "-", "c", "g", "i", "/", "c", "o", "m", "/",
      "p", "t", "z", ".", "c", "g", "i">>

PtzSearch ==
    <<"?", "p", "a", "n", "=", "1">>

RebootPath ==
    <<"/", "a", "x", "i", "s", "-", "c", "g", "i", "/", "f", "i", "r", "m",
      "w", "a", "r", "e", "m", "a", "n", "a", "g", "e", "m", "e", "n", "t",
      ".", "c", "g", "i">>

HostText ==
    <<"c", "a", "m">>

UserText ==
    <<"u">>

PassText ==
    <<"p">>

CnonceA ==
    <<"c", "1">>

CnonceB ==
    <<"c", "2">>

KeyRealm ==
    <<"r", "e", "a", "l", "m">>

KeyNonce ==
    <<"n", "o", "n", "c", "e">>

KeyQop ==
    <<"q", "o", "p">>

KeyAlgorithm ==
    <<"a", "l", "g", "o", "r", "i", "t", "h", "m">>

AuthUser ==
    <<"D", "i", "g", "e", "s", "t", " ", "u", "s", "e", "r", "n", "a", "m",
      "e", "=", "\"">>

AuthRealm ==
    <<"\"", ",", " ", "r", "e", "a", "l", "m", "=", "\"">>

AuthNonce ==
    <<"\"", ",", " ", "n", "o", "n", "c", "e", "=", "\"">>

AuthUri ==
    <<"\"", ",", " ", "u", "r", "i", "=", "\"">>

AuthAlgResp ==
    <<"\"", ",", " ", "a", "l", "g", "o", "r", "i", "t", "h", "m", "=", "M",
      "D", "5", ",", " ", "r", "e", "s", "p", "o", "n", "s", "e", "=", "\"">>

AuthQop ==
    <<"\"", ",", " ", "q", "o", "p", "=">>

AuthNc ==
    <<",", " ", "n", "c", "=">>

AuthCnonce ==
    <<",", " ", "c", "n", "o", "n", "c", "e", "=", "\"">>

AuthEnd ==
    <<"\"">>

\* ------------------------------------------------------------------------
\* Strings are sequences of one-character strings.  A value that may be
\* missing (a header headers.get returns null for, an option left undefined,
\* a key a parsed challenge lacks) is Absent or Some(text).
\* ------------------------------------------------------------------------

Absent == [some |-> FALSE, text |-> <<>>]

Some(t) == [some |-> TRUE, text |-> t]

\* Mutation: only undefined counts as missing, an empty string does not.
TruthyDefined(v) == v.some

\* JavaScript truthiness of a string-or-missing value.
Truthy(v) == v.some /\ v.text # <<>>

\* `${v}` in a template literal.
Text(v) == IF v.some THEN v.text ELSE UndefinedText

\* The characters \w of a regular expression matches.
WordChars ==
    {"a", "b", "c", "d", "e", "f", "g", "h", "i", "j", "k", "l", "m", "n", "o",
     "p", "q", "r", "s", "t", "u", "v", "w", "x", "y", "z", "A", "B", "C", "D",
     "E", "F", "G", "H", "I", "J", "K", "L", "M", "N", "O", "P", "Q", "R", "S",
     "T", "U", "V", "W", "X", "Y", "Z", "0", "1", "2", "3", "4", "5", "6", "7",
     "8", "9", "_"}

\* The white space String.prototype.trim removes.
SpaceChars == {" ", "\t", "\n", "\r"}

Quote == "\""

\* String.prototype.startsWith
StartsWith(s, prefix) ==
    Len(s) >= Len(prefix) /\ SubSeq(s, 1, Len(prefix)) = prefix

\* String.prototype.endsWith
EndsWith(s, suffix) ==
    Len(s) >= Len(suffix) /\ SubSeq(s, Len(s) - Len(suffix) + 1, Len(s)) = suffix

\* s.slice(n) for 0 <= n
SliceFrom(s, n) == SubSeq(s, n + 1, Len(s))

\* s.slice(1, -1)
SliceInner(s) == SubSeq(s, 2, Len(s) - 1)

RECURSIVE TrimStart(_)
TrimStart(s) ==
    IF s # <<>> /\ Head(s) \in SpaceChars THEN TrimStart(Tail(s)) ELSE s

RECURSIVE TrimEnd(_)
TrimEnd(s) ==
    IF s # <<>> /\ s[Len(s)] \in SpaceChars THEN TrimEnd(SubSeq(s, 1, Len(s) - 1))
    ELSE s

\* String.prototype.trim
Trim(s) == TrimEnd(TrimStart(s))

\* The first position from i on whose character is not in chars (Len(s) + 1
\* when there is none).
RECURSIVE SkipWhile(_, _, _)
SkipWhile(s, i, chars) ==
    IF i <= Len(s) /\ s[i] \in chars THEN SkipWhile(s, i + 1, chars) ELSE i

\* The first position from i on whose character is ch (0 when there is none).
RECURSIVE IndexOf(_, _, _)
IndexOf(s, i, ch) ==
    IF i > Len(s) THEN 0
    ELSE IF s[i] = ch THEN i
    ELSE IndexOf(s, i + 1, ch)

\* The first position from i on whose character is ch (Len(s) + 1 when there
\* is none).
UpTo(s, i, ch) == LET j == IndexOf(s, i, ch) IN IF j = 0 THEN Len(s) + 1 ELSE j

\* ------------------------------------------------------------------------
\* parseDigestHeader
\* ------------------------------------------------------------------------

NoMatch == [ok |-> FALSE, key |-> <<>>, value |-> <<>>, end |-> 0]

\* The match of /(\w+)=((?:"[^"]+")|[^,]+)/ that starts at position i: a run of
\* word characters, "=", then a quoted non-empty run without quotes or else a
\* non-empty run without commas.  `end` is the position of its last character.
MatchAt(s, i) ==
    IF i > Len(s) \/ s[i] \notin WordChars THEN NoMatch
    ELSE LET j == SkipWhile(s, i, WordChars) IN
         IF j > Len(s) \/ s[j] # "=" THEN NoMatch
         ELSE LET k == j + 1
                  q == IF k <= Len(s) /\ s[k] = Quote THEN IndexOf(s, k + 1, Quote)
                       ELSE 0
                  e == UpTo(s, k, ",") - 1
              IN IF q > k + 1
                 THEN [ok |-> TRUE, key |-> SubSeq(s, i, j - 1),
                       value |-> SubSeq(s, k, q), end |-> q]
                 ELSE IF e >= k
                 THEN [ok |-> TRUE, key |-> SubSeq(s, i, j - 1),
                       value |-> SubSeq(s, k, e), end |-> e]
                 ELSE NoMatch

\* regex.exec(challenge) with lastIndex at position i: the leftmost match.
RECURSIVE Exec(_, _)
Exec(s, i) ==
    IF i > Len(s) THEN NoMatch
    ELSE IF MatchAt(s, i).ok THEN MatchAt(s, i)
    ELSE Exec(s, i + 1)

\* The body of the while loop: trim the value and strip surrounding quotes.
ParamValue(raw) ==
    LET value == Trim(raw) IN
    IF StartsWith(value, <<Quote>>) /\ EndsWith(value, <<Quote>>)
    THEN SliceInner(value) ELSE value

\* The while loop over the matches, from position i on.
RECURSIVE ParseParams(_, _, _)
ParseParams(s, i, params) ==
    LET m == Exec(s, i) IN
    IF ~m.ok THEN params
    ELSE ParseParams(s, m.end + 1,
                     [x \in DOMAIN params \cup {m.key} |->
                         IF x = m.key THEN ParamValue(m.value) ELSE params[x]])

\* A function's outcome: a value it returned or an Error it threw.
Returned(v) == [threw |-> FALSE, value |-> v, error |-> JsNull]

Threw(message) == [threw |-> TRUE, value |-> <<>>, error |-> message]

\* The Error parseDigestHeader throws.
ProtocolError == "Camera did not return a Digest challenge"

\* The Error authenticate throws.
MissingCredentials == "Missing username or password for digest authentication"

\* Mutation: any header that is present is parsed as a Digest challenge.
HasDigestChallengeAnyScheme(header) == Truthy(header)

\* !(!header || !header.startsWith("Digest "))
HasDigestChallenge(header) ==
    Truthy(header) /\ StartsWith(header.text, DigestPrefix)

parseDigestHeader(header) ==
    IF ~HasDigestChallenge(header)
    THEN Threw(ProtocolError)
    ELSE Returned(ParseParams(SliceFrom(header.text, 7), 1, <<>>))

\* params.<key>
Param(params, key) ==
    IF key \in DOMAIN params THEN Some(params[key]) ELSE Absent

\* ------------------------------------------------------------------------
\* md5 and authenticate
\* ------------------------------------------------------------------------

\* The characters of a string, written as one string.
RECURSIVE Flat(_)
Flat(s) == IF s = <<>> THEN "" ELSE Head(s) \o Flat(Tail(s))

\* crypto.createHash("md5").update(value).digest("hex"): the hex digest is one
\* symbol that names the hashed text, so that different texts give different
\* digests.
md5(value) == <<"md5(" \o Flat(value) \o ")">>

Colon == <<":">>

\* Mutation: the client nonce is left out of the hashed text.
ResponseInputNoCnonce(ha1, nonce, nc, cnonce, qop, ha2) ==
    ha1 \o Colon \o nonce \o Colon \o nc \o Colon \o qop \o Colon \o ha2

\* `${ha1}:${params.nonce}:${nc}:${cnonce}:${params.qop}:${ha2}`
ResponseInput(ha1, nonce, nc, cnonce, qop, ha2) ==
    ha1 \o Colon \o nonce \o Colon \o nc \o Colon \o cnonce \o Colon \o qop
        \o Colon \o ha2

\* The Authorization header value authenticate builds.
authenticate(params, method, digestUri, username, password, cnonce) ==
    IF ~Truthy(username) \/ ~Truthy(password)
    THEN Threw(MissingCredentials)
    ELSE LET nc == NcText
             realm == Text(Param(params, KeyRealm))
             nonce == Text(Param(params, KeyNonce))
             qop == Text(Param(params, KeyQop))
             ha1 == md5(username.text \o Colon \o realm \o Colon \o password.text)
             ha2 == md5(method \o Colon \o digestUri)
             response == md5(ResponseInput(ha1, nonce, nc, cnonce, qop, ha2))
         IN Returned(AuthUser \o username.text \o AuthRealm \o realm \o AuthNonce
                     \o nonce \o AuthUri \o digestUri \o AuthAlgResp \o response
                     \o AuthQop \o qop \o AuthNc \o nc \o AuthCnonce \o cnonce
                     \o AuthEnd)

\* ------------------------------------------------------------------------
\* fetchWithDigest
\* ------------------------------------------------------------------------

\* The two callers: GET /ptz (line 323) and GET /reboot (line 352).
Routes == {"ptz", "reboot"}

Url(host, pathname, search) == [host |-> host, pathname |-> pathname, search |-> search]

\* targetUrl of a caller, as new URL(targetUrl) splits it.
TargetUrl(route) ==
    IF route = "ptz" THEN Url(HostText, PtzPath, PtzSearch)
    ELSE Url(HostText, RebootPath, <<>>)

\* options.method of a caller ("GET" by default).
MethodOf(route) == IF route = "ptz" THEN MethodGet ELSE MethodPost

\* uri.pathname + uri.search
DigestUri(url) == url.pathname \o url.search

\* options.username and options.password: missing, empty or set. The callers
\* pass CAMERA_USERNAME || "root" and CAMERA_PASSWORD || "".
Credentials ==
    {<<Absent, Absent>>, <<Some(UserText), Some(<<>>)>>,
     <<Some(<<>>), Some(PassText)>>, <<Some(UserText), Some(PassText)>>}

\* crypto.randomBytes(8).toString("hex")
Cnonces == {CnonceA, CnonceB}

\* A request handed to fetch.
Request(method, url, authorization) ==
    [method |-> method, url |-> url, authorization |-> authorization]

\* A response of the camera: `answers` is the number of the request of the
\* call it answers.
Resp(status, wwwAuthenticate, answers) ==
    [status |-> status, wwwAuthenticate |-> wwwAuthenticate, answers |-> answers]

Challenges ==
    {Absent, Some(<<>>), Some(ChallengeBasic), Some(ChallengeFull),
     Some(ChallengeUnquoted), Some(ChallengeNoNonce)}

\* What the camera may answer to the probe.
ProbeResponses ==
    {Resp(s, Absent, 1) : s \in {200, 404}}
        \cup {Resp(200, Some(ChallengeFull), 1)}
        \cup {Resp(401, h, 1) : h \in Challenges}

\* What the camera may answer to the authenticated retry.
RetryResponses ==
    {Resp(s, Absent, 2) : s \in {200, 500}} \cup {Resp(401, Some(ChallengeFull), 2)}

\* The locals of a call that is waiting for fetch.
Frame(pc, method, url, username, password, sent) ==
    [pc |-> pc, method |-> method, url |-> url, username |-> username,
     password |-> password, sent |-> sent]

NoFrame == Frame("idle", <<>>, Url(<<>>, <<>>, <<>>), Absent, Absent, <<>>)

\* How a call ended: what it returned or threw, and the requests it issued.
Outcome(route, frame, result) ==
    [call |-> route, username |-> frame.username, password |-> frame.password,
     result |-> result, sent |-> frame.sent]

NoOutcome == Outcome(JsNull, NoFrame, Threw(JsNull))

\* Mutation: only a 200 probe is passed through.
NeedsAuthUnless200(status) == status # 200

\* initialResponse.status !== 401 is false
NeedsAuth(status) == status = 401

\* The callers whose call is waiting for fetch.
InFlight == {c \in Routes : calls[c].pc # "idle"}

\* fetchWithDigest(targetUrl, options) up to its first await.
Call(c, username, password) ==
    /\ calls[c].pc = "idle"
    /\ Cardinality(InFlight) < MaxCalls
    /\ calls' = [calls EXCEPT ![c] =
                    Frame("probe", MethodOf(c), TargetUrl(c), username, password,
                          <<Request(MethodOf(c), TargetUrl(c), Absent)>>)]
    /\ UNCHANGED <<ret, streamVars>>

\* Mutation: the challenge parsed first is kept and used for every call.
ChallengeParamsShared ==
    [header \in Challenges |-> parseDigestHeader(Some(ChallengeFull))]

\* parseDigestHeader(header) of each header the camera may send.
ChallengeParams == [header \in Challenges |-> parseDigestHeader(header)]

\* The probe is answered: lines 271-289, up to the return or the second fetch.
ProbeReturns(c, response, cnonce) ==
    /\ calls[c].pc = "probe"
    /\ LET f == calls[c]
           params == ChallengeParams[response.wwwAuthenticate]
           authHeader == authenticate(params.value, f.method, DigestUri(f.url),
                                      f.username, f.password, cnonce)
       IN IF ~NeedsAuth(response.status) THEN
              /\ ret' = Outcome(c, f, Returned(response))
              /\ calls' = [calls EXCEPT ![c] = NoFrame]
          ELSE IF params.threw THEN
              /\ ret' = Outcome(c, f, Threw(params.error))
              /\ calls' = [calls EXCEPT ![c] = NoFrame]
          ELSE IF authHeader.threw THEN
              /\ ret' = Outcome(c, f, Threw(authHeader.error))
              /\ calls' = [calls EXCEPT ![c] = NoFrame]
          ELSE
              /\ calls' = [calls EXCEPT ![c] =
                              [f EXCEPT !.pc = "retry",
                                        !.sent = Append(@, Request(f.method, f.url,
                                                           Some(authHeader.value)))]]
              /\ ret' = ret
    /\ UNCHANGED streamVars

\* Mutation: a retry answered 401 is retried again.
RetryReturnsRetriesStale(c, response) ==
    /\ calls[c].pc = "retry"
    /\ IF response.status = 401 THEN
           /\ calls' = [calls EXCEPT ![c].sent = Append(@, @[Len(@)])]
           /\ ret' = ret
       ELSE
           /\ ret' = Outcome(c, calls[c], Returned(response))
           /\ calls' = [calls EXCEPT ![c] = NoFrame]
    /\ UNCHANGED streamVars

\* The retry is answered: its response is what the call returns.
RetryReturns(c, response) ==
    /\ calls[c].pc = "retry"
    /\ ret' = Outcome(c, calls[c], Returned(response))
    /\ calls' = [calls EXCEPT ![c] = NoFrame]
    /\ UNCHANGED streamVars

\* fetch rejects (the camera cannot be reached) and the call rejects with it.
FetchRejects(c) ==
    /\ calls[c].pc \in {"probe", "retry"}
    /\ ret' = Outcome(c, calls[c], Threw("fetch failed"))
    /\ calls' = [calls EXCEPT ![c] = NoFrame]
    /\ UNCHANGED streamVars

NextDigest ==
    \/ \E c \in Routes, cred \in Credentials : Call(c, cred[1], cred[2])
    \/ \E c \in Routes, r \in ProbeResponses, n \in Cnonces : ProbeReturns(c, r, n)
    \/ \E c \in Routes, r \in RetryResponses : RetryReturns(c, r)
    \/ \E c \in Routes : FetchRejects(c)

\* ------------------------------------------------------------------------
\* Specifications
\* ------------------------------------------------------------------------

\* The module was loaded and app.listen is running; no call is in flight.
Init ==
    /\ activeStreams = <<>>
    /\ procs = <<>>
    /\ pending = [id \in streamsConfig |-> 0]
    /\ raced = [id \in streamsConfig |-> FALSE]
    /\ last = Event("listen", JsNull, NoResponse, <<>>)
    /\ up = TRUE
    /\ calls = [c \in Routes |-> NoFrame]
    /\ ret = NoOutcome

\* The stream manager, one handler at a time.
Spec == Init /\ [][Next]_vars

\* The stream manager with start requests waiting together.
SpecRace == Init /\ [][NextRace]_vars

\* The digest client alone.
SpecDigest == Init /\ [][NextDigest]_vars

\* C10: when the probe is answered with a status other than 401, the call
\* returns that very response, has issued one request and issues no other,
\* whatever the credentials.
C10_Passthrough ==
    [][\A c \in Routes, r \in ProbeResponses, n \in Cnonces :
          (r.status # 401 /\ ProbeReturns(c, r, n))
             => /\ ret'.call = c
                /\ ~ret'.result.threw
                /\ ret'.result.value = r
                /\ Len(ret'.sent) = 1
                /\ ret'.sent = calls[c].sent
                /\ ~ret'.sent[1].authorization.some
                /\ calls'[c] = NoFrame
      ]_vars

\* C10 witness: a call without credentials returned the 404 its probe got,
\* after one request.
C10_Witness ==
    /\ ret.call \in Routes
    /\ ~ret.result.threw
    /\ ret.result.value.status = 404 /\ ret.result.value.answers = 1
    /\ ~Truthy(ret.username) /\ ~Truthy(ret.password)
    /\ Len(ret.sent) = 1

\* A pending fetch of a call is settled: answered or rejected.
Settle(c) ==
    \/ \E r \in ProbeResponses, n \in Cnonces : ProbeReturns(c, r, n)
    \/ \E r \in RetryResponses : RetryReturns(c, r)
    \/ FetchRejects(c)

\* The digest client when every network round trip comes back.
SpecDigestFair ==
    Init /\ [][NextDigest]_vars /\ \A c \in Routes : WF_vars(Settle(c))

\* C11: a call issues at most two requests; the second is issued only when the
\* probe is answered 401 with a Digest challenge and carries an Authorization
\* header; whatever the retry is answered (401 included) is returned as
\* received with no third request; and a call whose round trips come back
\* ends.
C11_AtMostTwoRequests ==
    /\ [](\A c \in Routes : Len(calls[c].sent) <= 2)
    /\ [][\A c \in Routes :
             /\ (calls[c].pc # "idle" /\ calls'[c].sent # calls[c].sent
                                      /\ calls'[c].pc # "idle")
                   => /\ calls[c].pc = "probe" /\ calls'[c].pc = "retry"
                      /\ Len(calls'[c].sent) = 2
                      /\ calls'[c].sent[1] = calls[c].sent[1]
                      /\ calls'[c].sent[2].authorization.some
             /\ \A r \in RetryResponses :
                   RetryReturns(c, r)
                      => /\ ~ret'.result.threw /\ ret'.result.value = r
                         /\ ret'.call = c /\ Len(ret'.sent) = 2
                         /\ calls'[c] = NoFrame
       ]_vars
    /\ \A c \in Routes : (calls[c].pc # "idle") ~> (calls[c].pc = "idle")

\* C11 witness: a call returned the 401 that answered its retry, after two
\* requests.
C11_Witness ==
    /\ ret.call \in Routes
    /\ ~ret.result.threw
    /\ ret.result.value.status = 401 /\ ret.result.value.answers = 2
    /\ Len(ret.sent) = 2

\* The text t occurs in the text s.
Contains(s, t) ==
    \E i \in 1..(Len(s) - Len(t) + 1) : SubSeq(s, i, i + Len(t) - 1) = t

\* The probe response whose Digest challenge has no nonce.
NoNonceResponse == Resp(401, Some(ChallengeNoNonce), 1)

\* C12 as stated: a probe answered 401 with a Digest challenge that has no
\* nonce makes the call fail with ProtocolError after its one request.
C12_MalformedChallenge ==
    [][\A c \in Routes, n \in Cnonces :
          ProbeReturns(c, NoNonceResponse, n)
             => /\ calls'[c] = NoFrame
                /\ ret'.call = c
                /\ ret'.result.threw /\ ret'.result.error = ProtocolError
                /\ Len(ret'.sent) = 1
      ]_vars

\* C12 witness of the divergence: after a challenge without nonce a second
\* request is in flight, with nonce="undefined" in its Authorization header.
C12_Witness ==
    \E c \in Routes :
        /\ calls[c].pc = "retry"
        /\ Len(calls[c].sent) = 2
        /\ Contains(calls[c].sent[2].authorization.text,
                    AuthNonce \o UndefinedText \o <<Quote>>)

\* WWW-Authenticate values that carry no Digest-scheme challenge: no header,
\* an empty one, a Basic challenge.
NonDigestHeaders == {Absent, Some(<<>>), Some(ChallengeBasic)}

\* C13: a probe answered 401 without a Digest-scheme challenge makes the call
\* fail with ProtocolError after its one request, whatever the credentials.
C13_NoDigestChallenge ==
    [][\A c \in Routes, h \in NonDigestHeaders, n \in Cnonces :
          ProbeReturns(c, Resp(401, h, 1), n)
             => /\ calls'[c] = NoFrame
                /\ ret'.call = c
                /\ ret'.result.threw /\ ret'.result.error = ProtocolError
                /\ Len(ret'.sent) = 1 /\ ret'.sent = calls[c].sent
      ]_vars

\* C13 witness: a call that had both credentials failed with ProtocolError
\* after one request.
C13_Witness ==
    /\ ret.call \in Routes
    /\ ret.result.threw /\ ret.result.error = ProtocolError
    /\ Truthy(ret.username) /\ Truthy(ret.password)
    /\ Len(ret.sent) = 1

\* WWW-Authenticate values that carry a complete Digest challenge.
DigestHeaders == {Some(ChallengeFull), Some(ChallengeUnquoted)}

\* A credential of the call is absent or empty.
LacksCredential(frame) ==
    frame.username \in {Absent, Some(<<>>)} \/ frame.password \in {Absent, Some(<<>>)}

\* C14: a probe answered 401 with a Digest challenge, in a call that lacks the
\* username or the password, makes the call fail with MissingCredentials after
\* its one request; without a Digest challenge the same call fails with
\* ProtocolError instead.
C14_MissingCredentials ==
    [][\A c \in Routes, n \in Cnonces :
          /\ \A h \in DigestHeaders :
                (LacksCredential(calls[c]) /\ ProbeReturns(c, Resp(401, h, 1), n))
                   => /\ calls'[c] = NoFrame
                      /\ ret'.call = c
                      /\ ret'.result.threw
                      /\ ret'.result.error = MissingCredentials
                      /\ Len(ret'.sent) = 1 /\ ret'.sent = calls[c].sent
          /\ \A h \in NonDigestHeaders :
                (LacksCredential(calls[c]) /\ ProbeReturns(c, Resp(401, h, 1), n))
                   => /\ calls'[c] = NoFrame
                      /\ ret'.result.threw /\ ret'.result.error = ProtocolError
                      /\ Len(ret'.sent) = 1
      ]_vars

\* C14 witness: a call with a username and an empty password failed with
\* MissingCredentials after one request.
C14_Witness ==
    /\ ret.call \in Routes
    /\ ret.result.threw /\ ret.result.error = MissingCredentials
    /\ ret.username = Some(UserText) /\ ret.password = Some(<<>>)
    /\ Len(ret.sent) = 1

\* The texts of a sequence joined by colons.
RECURSIVE Join(_)
Join(parts) ==
    IF Len(parts) = 1 THEN parts[1] ELSE parts[1] \o <<":">> \o Join(Tail(parts))

\* The parameters of an Authorization header value.
FieldsOf(authorization) == ParseParams(SliceFrom(authorization, 7), 1, <<>>)

KeyResponse == <<"r", "e", "s", "p", "o", "n", "s", "e">>

\* realm, nonce and qop of the complete challenges.
Challenge(header) ==
    IF header = Some(ChallengeFull)
    THEN [realm |-> <<"R">>, nonce |-> <<"N">>, qop |-> <<"a", "u", "t", "h">>]
    ELSE [realm |-> <<"R">>, nonce |-> <<"N", "2">>, qop |-> <<"a", "u", "t", "h">>]

\* hash(username : realm : password)
HA1(frame, ch) == md5(Join(<<frame.username.text, ch.realm, frame.password.text>>))

\* hash(method : digestURI)
HA2(frame) == md5(Join(<<frame.method, frame.url.pathname \o frame.url.search>>))

\* The retry that the step issues carries this response field.
RetryResponseField(c, expected) ==
    /\ calls'[c].pc = "retry"
    /\ Len(calls'[c].sent) = 2
    /\ calls'[c].sent[2].authorization.some
    /\ LET fields == FieldsOf(calls'[c].sent[2].authorization.text)
       IN KeyResponse \in DOMAIN fields /\ fields[KeyResponse] = expected

\* C15 as stated: the response field is the hash of the five components
\* HA1, nonce, nc, qop, HA2 joined by colons.
C15_FiveComponents ==
    [][\A c \in Routes, h \in DigestHeaders, n \in Cnonces :
          (~LacksCredential(calls[c]) /\ ProbeReturns(c, Resp(401, h, 1), n))
             => LET ch == Challenge(h)
                IN RetryResponseField(c,
                      md5(Join(<<HA1(calls[c], ch), ch.nonce, NcText, ch.qop,
                                 HA2(calls[c])>>)))
      ]_vars

\* C15 amended: the response field is the hash of the six components HA1,
\* nonce, nc, cnonce, qop, HA2 joined by colons, with nc = "00000001"; it is a
\* function of challenge, method, URI, credentials and cnonce.
C15_ResponseField ==
    [][\A c \in Routes, h \in DigestHeaders, n \in Cnonces :
          (~LacksCredential(calls[c]) /\ ProbeReturns(c, Resp(401, h, 1), n))
             => LET ch == Challenge(h)
                IN /\ NcText = <<"0", "0", "0", "0", "0", "0", "0", "1">>
                   /\ RetryResponseField(c,
                         md5(Join(<<HA1(calls[c], ch), ch.nonce, NcText, n, ch.qop,
                                    HA2(calls[c])>>)))
      ]_vars

\* C15 witness: the retry of a GET for the ptz URI, answering the challenge
\* {realm R, nonce N, qop auth} with cnonce CnonceA, is in flight.
C15_Witness ==
    /\ calls["ptz"].pc = "retry"
    /\ calls["ptz"].sent[2].authorization.some
    /\ FieldsOf(calls["ptz"].sent[2].authorization.text)[KeyResponse] =
          md5(Join(<<md5(Join(<<UserText, <<"R">>, PassText>>)), <<"N">>, NcText,
                     CnonceA, <<"a", "u", "t", "h">>,
                     md5(Join(<<MethodGet, PtzPath \o PtzSearch>>))>>))

\* The digest of a text under a named hash algorithm, as a symbol that names
\* the algorithm and the text.
Hash(algorithm, value) == <<algorithm \o "(" \o Flat(value) \o ")">>

\* The algorithm a challenge names: ChallengeUnquoted says algorithm=SHA-256,
\* ChallengeFull names none (MD5 then).
AlgorithmOf(header) == IF header = Some(ChallengeUnquoted) THEN "sha256" ELSE "md5"

\* C16 as stated: HA1, HA2 and response are computed with the hash algorithm
\* the challenge names, and with MD5 when it names none.
C16_NamedAlgorithm ==
    [][\A c \in Routes, h \in DigestHeaders, n \in Cnonces :
          (~LacksCredential(calls[c]) /\ ProbeReturns(c, Resp(401, h, 1), n))
             => LET ch == Challenge(h)
                    f == calls[c]
                    alg == AlgorithmOf(h)
                    ha1 == Hash(alg, Join(<<f.username.text, ch.realm, f.password.text>>))
                    ha2 == Hash(alg, Join(<<f.method, f.url.pathname \o f.url.search>>))
                IN RetryResponseField(c,
                      Hash(alg, Join(<<ha1, ch.nonce, NcText, n, ch.qop, ha2>>)))
      ]_vars

\* C16 witness of the divergence: the retry answering the challenge that names
\* SHA-256 is in flight with algorithm=MD5 and an MD5 response.
C16_Witness ==
    \E c \in Routes :
        /\ calls[c].pc = "retry"
        /\ calls[c].sent[2].authorization.some
        /\ LET fields == FieldsOf(calls[c].sent[2].authorization.text)
           IN /\ fields[KeyNonce] = <<"N", "2">>
              /\ fields[KeyAlgorithm] = <<"M", "D", "5">>
              /\ \E n \in Cnonces :
                    fields[KeyResponse] =
                       md5(Join(<<HA1(calls[c], Challenge(Some(ChallengeUnquoted))),
                                  <<"N", "2">>, NcText, n, <<"a", "u", "t", "h">>,
                                  HA2(calls[c])>>))

KeyCnonce == <<"c", "n", "o", "n", "c", "e">>

\* The parameters of the Authorization header of the retry of a call.
RetryFields(frame) == FieldsOf(frame.sent[2].authorization.text)

\* C18: whatever the other call is doing, the retry of a call carries realm,
\* nonce and qop of the challenge that answered its own probe and the cnonce
\* drawn in that call; a step of one call leaves the frame of the other
\* untouched; and nothing of a call is left once it has ended.
C18_NoSharedAuthState ==
    /\ [](\A c \in Routes : calls[c].pc = "idle" => calls[c] = NoFrame)
    /\ [][\A c \in Routes :
             /\ \A h \in DigestHeaders, n \in Cnonces :
                   (~LacksCredential(calls[c]) /\ ProbeReturns(c, Resp(401, h, 1), n))
                      => /\ calls'[c].pc = "retry"
                         /\ RetryFields(calls'[c])[KeyRealm] = Challenge(h).realm
                         /\ RetryFields(calls'[c])[KeyNonce] = Challenge(h).nonce
                         /\ RetryFields(calls'[c])[KeyQop] = Challenge(h).qop
                         /\ RetryFields(calls'[c])[KeyCnonce] = n
             /\ calls'[c] # calls[c] => \A d \in Routes \ {c} : calls'[d] = calls[d]
             /\ (calls[c].pc = "retry" /\ calls'[c].pc = "retry")
                   => calls'[c] = calls[c]
       ]_vars

\* C18 witness: two calls have their retries in flight together, each with
\* the nonce of its own challenge and with a cnonce of its own.
C18_Witness ==
    /\ calls["ptz"].pc = "retry" /\ calls["reboot"].pc = "retry"
    /\ RetryFields(calls["ptz"])[KeyNonce] = <<"N">>
    /\ RetryFields(calls["reboot"])[KeyNonce] = <<"N", "2">>
    /\ RetryFields(calls["ptz"])[KeyCnonce] = CnonceA
    /\ RetryFields(calls["reboot"])[KeyCnonce] = CnonceB

\* The children spawned for a camera whose process is running.
Live(ps, cameraId) ==
    {p \in 1..Len(ps) : ps[p].cam = cameraId /\ Running(ps, p)}

C19_OneLiveProcess ==
    \A id \in streamsConfig : Cardinality(Live(procs, id)) <= 1

\* C19 witness of the divergence: after start, stop and start of one camera
\* the child that was sent SIGTERM has not exited and the new child runs too.
C19_Witness ==
    /\ Len(procs) = 2
    /\ procs[1].cam = procs[2].cam
    /\ procs[1].st = "signalled" /\ procs[2].st = "alive"
    /\ activeStreams = (procs[2].cam :> 2)
    /\ last.kind = "start" /\ last.resp.status = "started"

\* The observers of child p removed the registry entry of its camera.
Unregisters(p) ==
    /\ OnError(p) \/ OnClose(p)
    /\ procs[p].cam \in DOMAIN activeStreams
    /\ procs[p].cam \notin DOMAIN activeStreams'

\* C20 as stated: every child that is alive and was not sent a signal is the
\* one registered under its camera, and an observer of child p removes the
\* entry of its camera only when the entry holds p.
C20_RegisteredWhileAlive ==
    /\ [](\A p \in Pids :
             procs[p].st = "alive"
                => /\ procs[p].cam \in DOMAIN activeStreams
                   /\ activeStreams[procs[p].cam] = p)
    /\ [][\A p \in Pids : Unregisters(p) => activeStreams[procs[p].cam] = p]_vars

\* C20 witness of the divergence: the termination observer of the first child
\* has just removed the entry of the second child of the same camera, which
\* is alive, was sent no signal and is registered nowhere.
C20_Witness ==
    /\ last.kind = "close"
    /\ Len(procs) = 2
    /\ procs[1].cam = procs[2].cam /\ last.id = procs[2].cam
    /\ procs[1].closeFired
    /\ procs[2].st = "alive"
    /\ activeStreams = <<>>

TypeOK ==
    /\ DOMAIN activeStreams \subseteq streamsConfig
    /\ \A k \in DOMAIN activeStreams : activeStreams[k] \in Pids
    /\ Len(procs) <= MaxProcs
    /\ up \in BOOLEAN

====
